---- MODULE Spec2Model ----
(* MI-MAC simulation engine (src/mi_mac_sim.py): schedule_attempts and      *)
(* run_simulation as a state machine.                                       *)
(*                                                                          *)
(* Units.  Every duration of the source is a multiple of 0.05 ms, so time   *)
(* is counted in ticks of 0.05 ms (tau_txW = 1.0 ms = 20 ticks).  Currents  *)
(* are counted in units of 10 uA (I_idle = 60e-6 A = 6) and the supply      *)
(* voltage in units of 0.1 V (Vcc = 3.3 V = 33).  One unit of energy is     *)
(* therefore 10 uA * 0.1 V * 0.05 ms = 5e-11 J; the source's division by    *)
(* 1000.0 (ms -> s) is part of that unit.  The arrival rate is counted per  *)
(* second (lambda_rate = 0.02 per ms = 20).                                 *)
EXTENDS Integers, Sequences, FiniteSets, TLC

(* ---------------- Simulation parameters (lines 15-41) ---------------- *)
Vcc == 33

tau_txW == 20
tau_txAck == 14
tau_txData == 60
tau_sense == 10
tau_safe == 6
tau_noAck == tau_txW + tau_txAck + tau_safe

I_idle == 6
I_receive == 49
I_sense == 74
I_tx_low == 22000
I_tx_high == 52800

size_W == 13
size_ACK == 9
size_DATA == 24

configs == <<"config1", "config2", "config3">>

\* variant: the acknowledgment gap is subtracted
AckGapBackwards == 0 - 2

\* the literal gaps of lines 114 and 129 (0.1 ms and 0.05 ms)
AckGap == 2
DataGap == 1

(* ---------------- Bounds of the model ---------------- *)
\* largest node count tried
MaxN == 3
\* cap on the length of the generated attempt stream
MaxAttempts == 3
\* horizon (ticks) of the runs with valid parameters
Horizon == 100
\* inter-arrival gaps (ticks) np.random.exponential may return: attempt
\* times 20, 40, 60 and 80 arise, so wake-ups 0, 20, 40 and 60 ticks apart;
\* the last gap overshoots every horizon tried
ISI == {20, 60, Horizon}

VARIABLES
    N, sim_time, lambda_rate, config_name,
    pc, err,
    node, t, attempts,
    idx, transmissions, energy, bytes_sent, bytes_success, attempts_done,
    collided_log,
    total_throughput_bytes,
    run_no, previous

vars == <<N, sim_time, lambda_rate, config_name, pc, err, node, t, attempts,
          idx, transmissions, energy, bytes_sent, bytes_success,
          attempts_done, collided_log, total_throughput_bytes,
          run_no, previous>>

\* which invocation of run_simulation is executing, and what the invocation
\* before it returned
callvars == <<run_no, previous>>

params == <<N, sim_time, lambda_rate, config_name>>
genvars == <<node, t>>
runvars == <<idx, transmissions, energy, bytes_sent, bytes_success,
             attempts_done, collided_log>>

Nodes == 0 .. (N - 1)

(* ---------------- Helpers ---------------- *)
\* variant: the charge is subtracted
AddNegated(f, n, d) == [f EXCEPT ![n] = @ - d]

\* variant: the charge is added to the whole array
AddBroadcast(f, n, d) == [m \in DOMAIN f |-> f[m] + d]

Add(f, n, d) == [f EXCEPT ![n] = @ + d]

\* variant: the sum starts at node 1
RECURSIVE SumFromOne(_, _)
SumFromOne(f, n) == IF n < 1 THEN 0 ELSE f[n] + SumFromOne(f, n - 1)

RECURSIVE SumTo(_, _)
SumTo(f, n) == IF n < 0 THEN 0 ELSE f[n] + SumTo(f, n - 1)

\* list.sort(key=time): stable, so equal times keep their generation order
RECURSIVE InsertByTime(_, _)
InsertByTime(s, a) ==
    IF s = <<>> THEN <<a>>
    ELSE IF s[Len(s)].time <= a.time THEN Append(s, a)
    ELSE Append(InsertByTime(SubSeq(s, 1, Len(s) - 1), a), s[Len(s)])

\* variant: the stream is left in generation order
SortOmitted(s) == s

RECURSIVE SortByTime(_)
SortByTime(s) ==
    IF s = <<>> THEN <<>>
    ELSE InsertByTime(SortByTime(SubSeq(s, 1, Len(s) - 1)), s[Len(s)])

(* ---------------- Per-configuration parameters ---------------- *)
\* variant: the hybrid wake-up is driven at low current
WakeUpHybridLow(cfg) ==
    IF cfg = "config1" THEN [dur |-> tau_txW * 3, I |-> I_tx_low]
    ELSE IF cfg = "config2" THEN [dur |-> tau_txW, I |-> I_tx_high]
    ELSE [dur |-> tau_txW * 3, I |-> I_tx_low]

\* lines 80-85: wake-up duration and drive current
WakeUp(cfg) ==
    IF cfg = "config1" THEN [dur |-> tau_txW * 3, I |-> I_tx_low]
    ELSE IF cfg = "config2" THEN [dur |-> tau_txW, I |-> I_tx_high]
    ELSE [dur |-> tau_txW * 3, I |-> I_tx_high]

\* lines 109-112: acknowledgment duration and drive current
Ack(cfg) ==
    IF cfg = "config2" THEN [dur |-> tau_txAck, I |-> I_tx_high]
    ELSE [dur |-> tau_txAck, I |-> I_tx_low]

\* lines 122-127: data duration and drive current
Data(cfg) ==
    IF cfg = "config1" THEN [dur |-> tau_txData * 3, I |-> I_tx_low]
    ELSE IF cfg = "config2" THEN [dur |-> tau_txData, I |-> I_tx_high]
    ELSE [dur |-> tau_txData, I |-> I_tx_low]

(* ---------------- Collision check (lines 93-98) ---------------- *)
\* variant: a wake-up that ends exactly at W_start counts as overlapping
CollidesClosed(trs, target, W_start, W_end) ==
    \E k \in 1 .. (Len(trs) - 1) :
        /\ trs[k].target = target
        /\ trs[k].type = "W"
        /\ ~(trs[k].end < W_start \/ trs[k].start > W_end)

\* variant: records of every phase are compared
CollidesAnyType(trs, target, W_start, W_end) ==
    \E k \in 1 .. (Len(trs) - 1) :
        /\ trs[k].target = target
        /\ ~(trs[k].end <= W_start \/ trs[k].start >= W_end)

\* variant: the target of the earlier wake-up is not compared
CollidesAnyTarget(trs, target, W_start, W_end) ==
    \E k \in 1 .. (Len(trs) - 1) :
        /\ trs[k].type = "W"
        /\ ~(trs[k].end <= W_start \/ trs[k].start >= W_end)

\* trs is the ledger with the candidate wake-up already appended
Collides(trs, target, W_start, W_end) ==
    \E k \in 1 .. (Len(trs) - 1) :
        /\ trs[k].target = target
        /\ trs[k].type = "W"
        /\ ~(trs[k].end <= W_start \/ trs[k].start >= W_end)

(* ---------------- Initial states ---------------- *)
InitWith(Ns, Ts, Ls, Cs) ==
    /\ N \in Ns
    /\ sim_time \in Ts
    /\ lambda_rate \in Ls
    /\ config_name \in Cs
    /\ pc = "schedule"
    /\ err = "none"
    /\ node = 0
    /\ t = 0
    /\ attempts = <<>>
    /\ idx = 0
    /\ transmissions = <<>>
    /\ energy = <<>>
    /\ bytes_sent = <<>>
    /\ bytes_success = <<>>
    /\ attempts_done = 0
    /\ collided_log = <<>>
    /\ total_throughput_bytes = 0
    /\ run_no = 1
    /\ previous = [energy |-> <<>>, bytes_sent |-> <<>>,
                   bytes_success |-> <<>>, total_throughput_bytes |-> 0,
                   attempts_done |-> 0, collided_log |-> <<>>]

\* the parameters section 6 of the specification calls valid, and the three
\* configuration identities the script runs (line 153)
Init == InitWith(2 .. MaxN, {Horizon}, {20}, {configs[k] : k \in 1 .. 3})

\* the three configuration identities, and parameters of which at most one
\* is outside the range section 6 of the specification allows
InitAny ==
    /\ InitWith(-1 .. MaxN, {-Horizon, 0, Horizon}, {-20, 0, 20},
                {configs[k] : k \in 1 .. 3})
    /\ \/ sim_time > 0 /\ lambda_rate > 0
       \/ N >= 2 /\ lambda_rate > 0
       \/ N >= 2 /\ sim_time > 0

\* valid parameters, and a configuration identity outside configs
InitAnyConfig == InitWith(2 .. MaxN, {Horizon}, {20},
                          {configs[k] : k \in 1 .. 3} \cup {"config4"})

(* ---------------- schedule_attempts (lines 44-57) ---------------- *)
Raise(e) ==
    /\ pc' = "error"
    /\ err' = e
    /\ UNCHANGED <<params, callvars, genvars, attempts, runvars, total_throughput_bytes>>

\* one evaluation of the while condition of line 49 and, when it holds, one
\* pass through the loop body (lines 50-55)
DrawAttempt ==
    /\ pc = "schedule"
    /\ node < N
    /\ IF ~(t < sim_time)
       THEN /\ node' = node + 1
            /\ t' = 0
            /\ UNCHANGED <<params, callvars, pc, err, attempts, runvars,
                           total_throughput_bytes>>
       ELSE IF lambda_rate = 0 THEN Raise("ZeroDivisionError")
       ELSE IF lambda_rate < 0 THEN Raise("ValueError")
       ELSE \E isi \in ISI :
            LET t2 == t + isi
                others == {x \in Nodes : x # node}
            IN  IF t2 >= sim_time
                THEN /\ node' = node + 1
                     /\ t' = 0
                     /\ UNCHANGED <<params, callvars, pc, err, attempts, runvars,
                                    total_throughput_bytes>>
                ELSE IF others = {} THEN Raise("IndexError")
                ELSE /\ Len(attempts) < MaxAttempts
                     /\ \E target \in others :
                            attempts' = Append(attempts,
                                [node |-> node, time |-> t2, target |-> target])
                     /\ t' = t2
                     /\ UNCHANGED <<params, callvars, pc, err, node, runvars,
                                    total_throughput_bytes>>

\* the for loop of line 47 is exhausted: sort and return (lines 56-57), then
\* lines 62-66 of run_simulation
StartRun ==
    /\ pc = "schedule"
    /\ node >= N
    /\ IF N < 0 THEN Raise("ValueError")
       ELSE /\ attempts' = SortByTime(attempts)
            /\ transmissions' = <<>>
            /\ energy' = [n \in Nodes |-> 0]
            /\ bytes_sent' = [n \in Nodes |-> 0]
            /\ bytes_success' = [n \in Nodes |-> 0]
            /\ attempts_done' = 0
            /\ idx' = 0
            /\ pc' = "loop"
            /\ UNCHANGED <<params, callvars, err, genvars, collided_log,
                           total_throughput_bytes>>

(* ---------------- run_simulation (lines 60-149) ---------------- *)
\* variant: the target's wake-up receive charge of line 106 is made before
\* the collision check instead of after it
CollidedPathCharged(sender, target, trs1, e3) ==
    /\ transmissions' = trs1
    /\ energy' = Add(Add(e3, target,
                         (I_receive * Vcc) * WakeUp(config_name).dur),
                     sender, (I_idle * Vcc) * tau_noAck)
    /\ bytes_sent' = Add(bytes_sent, sender, size_W)
    /\ attempts_done' = attempts_done + 1
    /\ collided_log' = Append(collided_log, TRUE)
    /\ UNCHANGED bytes_success

\* variant: the collided branch leaves attempts_done alone
CollidedPathUncounted(sender, target, trs1, e3) ==
    /\ transmissions' = trs1
    /\ energy' = Add(e3, sender, (I_idle * Vcc) * tau_noAck)
    /\ bytes_sent' = Add(bytes_sent, sender, size_W)
    /\ collided_log' = Append(collided_log, TRUE)
    /\ UNCHANGED <<bytes_success, attempts_done>>

\* variant: the ledger is a window that drops its oldest record when a
\* collided wake-up is kept
CollidedPathWindowed(sender, target, trs1, e3) ==
    /\ transmissions' = Tail(trs1)
    /\ energy' = Add(e3, sender, (I_idle * Vcc) * tau_noAck)
    /\ bytes_sent' = Add(bytes_sent, sender, size_W)
    /\ attempts_done' = attempts_done + 1
    /\ collided_log' = Append(collided_log, TRUE)
    /\ UNCHANGED bytes_success

\* variant: the wake-up record of a collided attempt is taken off the ledger
CollidedPathDropped(sender, target, trs1, e3) ==
    /\ transmissions' = SubSeq(trs1, 1, Len(trs1) - 1)
    /\ energy' = Add(e3, sender, (I_idle * Vcc) * tau_noAck)
    /\ bytes_sent' = Add(bytes_sent, sender, size_W)
    /\ attempts_done' = attempts_done + 1
    /\ collided_log' = Append(collided_log, TRUE)
    /\ UNCHANGED bytes_success

\* lines 100-104: the attempt collided; trs1 and e3 are the ledger and the
\* energy totals after the wake-up transmission
CollidedPath(sender, target, trs1, e3) ==
    /\ transmissions' = trs1
    /\ energy' = Add(e3, sender, (I_idle * Vcc) * tau_noAck)
    /\ bytes_sent' = Add(bytes_sent, sender, size_W)
    /\ attempts_done' = attempts_done + 1
    /\ collided_log' = Append(collided_log, TRUE)
    /\ UNCHANGED bytes_success

\* variant: the acknowledgment is recorded in the direction of the wake-up
\* (sender to target) and the delivered bytes count the whole exchange
CompletedPathSwapped(sender, target, trs1, e3, W_end) ==
    LET W_dur == WakeUp(config_name).dur
        e4 == Add(e3, target, (I_receive * Vcc) * W_dur)
        ack_I == Ack(config_name).I
        ack_dur == Ack(config_name).dur
        ACK_start == W_end + AckGap
        ACK_end == ACK_start + ack_dur
        trs2 == Append(trs1,
                  [start |-> ACK_start, end |-> ACK_end, sender |-> sender,
                   target |-> target, type |-> "ACK"])
        e5 == Add(e4, target, (ack_I * Vcc) * ack_dur)
        e6 == Add(e5, sender, (I_receive * Vcc) * ack_dur)
        data_dur == Data(config_name).dur
        data_I == Data(config_name).I
        DATA_start == ACK_end + DataGap
        DATA_end == DATA_start + data_dur
        trs3 == Append(trs2,
                  [start |-> DATA_start, end |-> DATA_end, sender |-> sender,
                   target |-> target, type |-> "DATA"])
        e7 == Add(e6, sender, (data_I * Vcc) * data_dur)
        e8 == Add(e7, target, (I_receive * Vcc) * data_dur)
    IN  /\ transmissions' = trs3
        /\ energy' = e8
        /\ bytes_sent' = Add(bytes_sent, sender, size_W + size_ACK + size_DATA)
        /\ bytes_success' = Add(bytes_success, sender,
                                size_W + size_ACK + size_DATA)
        /\ attempts_done' = attempts_done + 1
        /\ collided_log' = Append(collided_log, FALSE)

\* variant: the acknowledgment record ends where it starts
CompletedPathAckInstant(sender, target, trs1, e3, W_end) ==
    LET W_dur == WakeUp(config_name).dur
        e4 == Add(e3, target, (I_receive * Vcc) * W_dur)
        ack_I == Ack(config_name).I
        ack_dur == Ack(config_name).dur
        ACK_start == W_end + AckGap
        ACK_end == ACK_start
        trs2 == Append(trs1,
                  [start |-> ACK_start, end |-> ACK_end, sender |-> target,
                   target |-> sender, type |-> "ACK"])
        e5 == Add(e4, target, (ack_I * Vcc) * ack_dur)
        e6 == Add(e5, sender, (I_receive * Vcc) * ack_dur)
        data_dur == Data(config_name).dur
        data_I == Data(config_name).I
        DATA_start == ACK_end + DataGap
        DATA_end == DATA_start + data_dur
        trs3 == Append(trs2,
                  [start |-> DATA_start, end |-> DATA_end, sender |-> sender,
                   target |-> target, type |-> "DATA"])
        e7 == Add(e6, sender, (data_I * Vcc) * data_dur)
        e8 == Add(e7, target, (I_receive * Vcc) * data_dur)
    IN  /\ transmissions' = trs3
        /\ energy' = e8
        /\ bytes_sent' = Add(bytes_sent, sender, size_W + size_ACK + size_DATA)
        /\ bytes_success' = Add(bytes_success, sender, size_DATA)
        /\ attempts_done' = attempts_done + 1
        /\ collided_log' = Append(collided_log, FALSE)

\* lines 106-136: the attempt did not collide
CompletedPath(sender, target, trs1, e3, W_end) ==
    LET W_dur == WakeUp(config_name).dur
        e4 == Add(e3, target, (I_receive * Vcc) * W_dur)
        \* lines 108-119: acknowledgment
        ack_I == Ack(config_name).I
        ack_dur == Ack(config_name).dur
        ACK_start == W_end + AckGap
        ACK_end == ACK_start + ack_dur
        trs2 == Append(trs1,
                  [start |-> ACK_start, end |-> ACK_end, sender |-> target,
                   target |-> sender, type |-> "ACK"])
        e5 == Add(e4, target, (ack_I * Vcc) * ack_dur)
        e6 == Add(e5, sender, (I_receive * Vcc) * ack_dur)
        \* lines 121-136: data
        data_dur == Data(config_name).dur
        data_I == Data(config_name).I
        DATA_start == ACK_end + DataGap
        DATA_end == DATA_start + data_dur
        trs3 == Append(trs2,
                  [start |-> DATA_start, end |-> DATA_end, sender |-> sender,
                   target |-> target, type |-> "DATA"])
        e7 == Add(e6, sender, (data_I * Vcc) * data_dur)
        e8 == Add(e7, target, (I_receive * Vcc) * data_dur)
    IN  /\ transmissions' = trs3
        /\ energy' = e8
        /\ bytes_sent' = Add(bytes_sent, sender, size_W + size_ACK + size_DATA)
        /\ bytes_success' = Add(bytes_success, sender, size_DATA)
        /\ attempts_done' = attempts_done + 1
        /\ collided_log' = Append(collided_log, FALSE)

\* one pass through the body of the for loop of line 68 (lines 69-136);
\* collided_log records the value of the local `collided` of each pass
ProcessAttempt ==
    /\ pc = "loop"
    /\ idx < Len(attempts)
    /\ LET a == attempts[idx + 1]
           sender == a.node
           target == a.target
           \* lines 72-77: sense
           time1 == a.time + tau_sense
           e1 == Add(energy, sender, (I_sense * Vcc) * tau_sense)
           e2 == Add(e1, target, (I_receive * Vcc) * (tau_sense \div 2))
           \* lines 79-90: wake-up
           W_dur == WakeUp(config_name).dur
           I_tx == WakeUp(config_name).I
           W_start == time1
           W_end == time1 + W_dur
           trs1 == Append(transmissions,
                     [start |-> W_start, end |-> W_end, sender |-> sender,
                      target |-> target, type |-> "W"])
           e3 == Add(e2, sender, (I_tx * Vcc) * W_dur)
       IN  \* lines 92-100: collision check
           IF Collides(trs1, target, W_start, W_end)
           THEN CollidedPath(sender, target, trs1, e3)
           ELSE CompletedPath(sender, target, trs1, e3, W_end)
    /\ idx' = idx + 1
    /\ UNCHANGED <<params, callvars, pc, err, genvars, attempts, total_throughput_bytes>>

\* variant: only nodes that sent something get the baseline charge
BaselineActiveOnly ==
    /\ pc = "loop"
    /\ idx = Len(attempts)
    /\ energy' = [n \in Nodes |->
                     IF bytes_sent[n] > 0
                     THEN energy[n] + (I_idle * Vcc) * sim_time
                     ELSE energy[n]]
    /\ pc' = "report"
    /\ UNCHANGED <<params, callvars, err, genvars, attempts, idx, transmissions,
                   bytes_sent, bytes_success, attempts_done, collided_log,
                   total_throughput_bytes>>

\* the for loop of line 68 is exhausted: baseline idle energy (lines 138-140)
Baseline ==
    /\ pc = "loop"
    /\ idx = Len(attempts)
    /\ energy' = [n \in Nodes |-> energy[n] + (I_idle * Vcc) * sim_time]
    /\ pc' = "report"
    /\ UNCHANGED <<params, callvars, err, genvars, attempts, idx, transmissions,
                   bytes_sent, bytes_success, attempts_done, collided_log,
                   total_throughput_bytes>>

\* lines 142-149: tabulate, sum bytes_success, return
Report ==
    /\ pc = "report"
    /\ total_throughput_bytes' = SumTo(bytes_success, N - 1)
    /\ pc' = "done"
    /\ UNCHANGED <<params, callvars, err, genvars, attempts, runvars>>

Next ==
    \/ DrawAttempt
    \/ StartRun
    \/ ProcessAttempt
    \/ Baseline
    \/ Report

Spec == Init /\ [][Next]_vars

\* variant: the ledger is state shared by the invocations and is not emptied
RerunKeepLedger ==
    /\ pc = "done"
    /\ run_no = 1
    /\ previous' = [energy |-> energy, bytes_sent |-> bytes_sent,
                    bytes_success |-> bytes_success,
                    total_throughput_bytes |-> total_throughput_bytes,
                    attempts_done |-> attempts_done,
                    collided_log |-> collided_log]
    /\ run_no' = 2
    /\ energy' = [n \in Nodes |-> 0]
    /\ bytes_sent' = [n \in Nodes |-> 0]
    /\ bytes_success' = [n \in Nodes |-> 0]
    /\ attempts_done' = 0
    /\ idx' = 0
    /\ collided_log' = <<>>
    /\ total_throughput_bytes' = 0
    /\ pc' = "loop"
    /\ UNCHANGED <<params, err, genvars, attempts, transmissions>>

\* run_simulation is invoked a second time with the same configuration and
\* the same random draws, so that line 61 yields the same attempt stream;
\* lines 62-66 start from a fresh ledger and zeroed totals, and the result
\* of the first invocation is kept by the caller (lines 154-155)
Rerun ==
    /\ pc = "done"
    /\ run_no = 1
    /\ previous' = [energy |-> energy, bytes_sent |-> bytes_sent,
                    bytes_success |-> bytes_success,
                    total_throughput_bytes |-> total_throughput_bytes,
                    attempts_done |-> attempts_done,
                    collided_log |-> collided_log]
    /\ run_no' = 2
    /\ transmissions' = <<>>
    /\ energy' = [n \in Nodes |-> 0]
    /\ bytes_sent' = [n \in Nodes |-> 0]
    /\ bytes_success' = [n \in Nodes |-> 0]
    /\ attempts_done' = 0
    /\ idx' = 0
    /\ collided_log' = <<>>
    /\ total_throughput_bytes' = 0
    /\ pc' = "loop"
    /\ UNCHANGED <<params, err, genvars, attempts>>

NextReplay ==
    \/ DrawAttempt
    \/ StartRun
    \/ ProcessAttempt
    \/ Baseline
    \/ Report
    \/ Rerun

SpecReplay == Init /\ [][NextReplay]_vars

SpecAny == InitAny /\ [][Next]_vars

SpecAnyConfig == InitAnyConfig /\ [][Next]_vars

(* ======================= Properties ======================= *)
\* half-open intervals [r.start, r.end) and [q.start, q.end) share a point
Intersects(r, q) == r.start < q.end /\ q.start < r.end

\* p is the ledger position of the wake-up record of the k-th attempt
IsWakeUpOf(p, k) ==
    /\ p \in 1 .. Len(transmissions)
    /\ transmissions[p].type = "W"
    /\ transmissions[p].sender = attempts[k].node
    /\ transmissions[p].target = attempts[k].target
    /\ transmissions[p].start = attempts[k].time + tau_sense

\* an earlier record of the given phases, addressed to the same target as
\* record p, whose interval intersects that of record p
EarlierOverlap(p, types) ==
    \E j \in 1 .. (p - 1) :
        /\ transmissions[j].type \in types
        /\ transmissions[j].target = transmissions[p].target
        /\ Intersects(transmissions[j], transmissions[p])

\* C1: every processed attempt is marked collided exactly when the ledger
\* before its own wake-up record holds a wake-up record to the same target
\* whose half-open interval intersects the attempt's wake-up interval; a
\* wake-up that ends exactly at W_start is no collision.
C1_CollidedIffOverlap ==
    \A k \in 1 .. Len(collided_log) :
        \E p \in 1 .. Len(transmissions) :
            /\ IsWakeUpOf(p, k)
            /\ transmissions[p].end
                   = transmissions[p].start + WakeUp(config_name).dur
            /\ collided_log[k] <=> EarlierOverlap(p, {"W"})

\* one attempt collided, and another completed although an earlier wake-up
\* to its target ends exactly where its own wake-up starts
C1_Witness ==
    /\ \E k \in 1 .. Len(collided_log) : collided_log[k]
    /\ \E k \in 1 .. Len(collided_log) :
           /\ ~collided_log[k]
           /\ \E p \in 1 .. Len(transmissions) :
                  /\ IsWakeUpOf(p, k)
                  /\ \E j \in 1 .. (p - 1) :
                         /\ transmissions[j].type = "W"
                         /\ transmissions[j].target = transmissions[p].target
                         /\ transmissions[j].end = transmissions[p].start

\* C2: an acknowledgment or data record never causes a collision: an attempt
\* whose wake-up interval is intersected, among the earlier records to its
\* target, only by acknowledgment or data records is not marked collided.
C2_OnlyWakeUpsCollide ==
    \A k \in 1 .. Len(collided_log) :
        \A p \in 1 .. Len(transmissions) :
            ( /\ IsWakeUpOf(p, k)
              /\ EarlierOverlap(p, {"ACK", "DATA"})
              /\ ~EarlierOverlap(p, {"W"}) )
            => ~collided_log[k]

\* an attempt completed although both an acknowledgment record and a data
\* record addressed to a node intersect a later wake-up to that node
C2_Witness ==
    /\ \E k \in 1 .. Len(collided_log) :
         \E p \in 1 .. Len(transmissions) :
           /\ IsWakeUpOf(p, k)
           /\ EarlierOverlap(p, {"DATA"})
           /\ ~EarlierOverlap(p, {"W"})
           /\ ~collided_log[k]
    /\ \E k \in 1 .. Len(collided_log) :
         \E p \in 1 .. Len(transmissions) :
           /\ IsWakeUpOf(p, k)
           /\ EarlierOverlap(p, {"ACK"})
           /\ ~EarlierOverlap(p, {"W"})
           /\ ~collided_log[k]

\* the step processes one attempt and marks it with outcome c
Marks(c) ==
    /\ Len(collided_log') = Len(collided_log) + 1
    /\ collided_log'[Len(collided_log')] = c

\* the ledger grew by exactly the records recs, in that order
LedgerGrewBy(recs) ==
    /\ Len(transmissions') = Len(transmissions) + Len(recs)
    /\ SubSeq(transmissions', 1, Len(transmissions)) = transmissions
    /\ \A m \in 1 .. Len(recs) :
           LET r == transmissions'[Len(transmissions) + m]
           IN  /\ r.type = recs[m].type
               /\ r.sender = recs[m].sender
               /\ r.target = recs[m].target

\* C3: an attempt marked collided ends at the collision check: the sender's
\* bytes-sent grows by size_W, its bytes-delivered is unchanged,
\* attempts-processed grows by 1, the sender pays sense, wake-up and the idle
\* no-acknowledgment timeout, the ledger grows by the one wake-up record, and
\* the target pays only its share of the sense phase.
C3_Step ==
    Marks(TRUE) =>
        LET a == attempts[Len(collided_log')]
            s == a.node
            g == a.target
        IN  /\ bytes_sent'[s] = bytes_sent[s] + size_W
            /\ bytes_success'[s] = bytes_success[s]
            /\ attempts_done' = attempts_done + 1
            /\ energy'[s] = energy[s]
                   + (I_sense * Vcc) * tau_sense
                   + (WakeUp(config_name).I * Vcc) * WakeUp(config_name).dur
                   + (I_idle * Vcc) * (tau_txW + tau_txAck + tau_safe)
            /\ LedgerGrewBy(<<[type |-> "W", sender |-> s, target |-> g]>>)
            /\ energy'[g] = energy[g] + (I_receive * Vcc) * (tau_sense \div 2)

\* C3, in every step of every run: a collided attempt ends at the collision check
C3_CollidedTerminates == [][C3_Step]_vars

\* an attempt has been marked collided
C3_Witness ==
    /\ collided_log # <<>>
    /\ collided_log[Len(collided_log)]
    /\ transmissions[Len(transmissions)].type = "W"

\* C4: an attempt not marked collided runs to completion: the ledger grows
\* by wake-up (sender to target), acknowledgment (target to sender) and data
\* (sender to target) in that order, the sender's bytes-sent grows by
\* size_W + size_ACK + size_DATA, its bytes-delivered by size_DATA, and
\* attempts-processed by 1.
C4_Step ==
    Marks(FALSE) =>
        LET a == attempts[Len(collided_log')]
            s == a.node
            g == a.target
        IN  /\ LedgerGrewBy(<<[type |-> "W", sender |-> s, target |-> g],
                              [type |-> "ACK", sender |-> g, target |-> s],
                              [type |-> "DATA", sender |-> s, target |-> g]>>)
            /\ bytes_sent'[s] = bytes_sent[s] + size_W + size_ACK + size_DATA
            /\ bytes_success'[s] = bytes_success[s] + size_DATA
            /\ attempts_done' = attempts_done + 1

\* C4, in every step of every run: an attempt that did not collide runs all three phases
C4_CompletedRunsAllPhases == [][C4_Step]_vars

\* an attempt has completed
C4_Witness ==
    /\ collided_log # <<>>
    /\ ~collided_log[Len(collided_log)]
    /\ transmissions[Len(transmissions)].type = "DATA"

\* wake-up interval of the k-th attempt of stream s, from its time alone
WakeInterval(s, k) ==
    [start |-> s[k].time + tau_sense,
     end |-> s[k].time + tau_sense + WakeUp(config_name).dur]

\* some attempt before the k-th in stream s has the same target and an
\* intersecting wake-up interval
PrefixCollides(s, k) ==
    \E j \in 1 .. (k - 1) :
        /\ s[j].target = s[k].target
        /\ Intersects(WakeInterval(s, j), WakeInterval(s, k))

\* number of processed attempts of stream s sent by n with outcome c in log
CountOf(s, log, n, c) ==
    Cardinality({k \in 1 .. Len(log) : s[k].node = n /\ log[k] = c})

\* C5: of two attempts to one target with intersecting wake-up intervals
\* the later-processed one fails: an attempt's outcome is decided by the
\* attempts before it in the stream, and neither that outcome nor the byte
\* totals it produced are changed by an attempt processed later.
C5_Step ==
    /\ Len(collided_log') >= Len(collided_log)
    /\ \A k \in 1 .. Len(collided_log) : collided_log'[k] = collided_log[k]
    /\ \A k \in 1 .. Len(collided_log') :
           collided_log'[k] = PrefixCollides(attempts', k)
    /\ pc' \in {"loop", "report", "done"} =>
           \A n \in Nodes :
               /\ bytes_success'[n]
                      = size_DATA * CountOf(attempts', collided_log', n, FALSE)
               /\ bytes_sent'[n]
                      = size_W * CountOf(attempts', collided_log', n, TRUE)
                        + (size_W + size_ACK + size_DATA)
                          * CountOf(attempts', collided_log', n, FALSE)

\* C5, in every step of every run: the later attempt fails and earlier outcomes stand
C5_LaterAttemptFails == [][C5_Step]_vars

\* the first attempt completed, the second, to the same target, collided
\* with it, and a third attempt has been processed after them
C5_Witness ==
    /\ Len(collided_log) >= 3
    /\ ~collided_log[1]
    /\ collided_log[2]
    /\ attempts[1].target = attempts[2].target
    /\ Intersects(WakeInterval(attempts, 1), WakeInterval(attempts, 2))
    /\ attempts[1].time < attempts[2].time

CollidedSet == {k \in 1 .. Len(collided_log) : collided_log[k]}
CompletedSet == {k \in 1 .. Len(collided_log) : ~collided_log[k]}
NumRecords(type) ==
    Cardinality({p \in 1 .. Len(transmissions) : transmissions[p].type = type})

\* C6: every generated attempt is accounted exactly once: attempts-processed
\* is the number of collided plus the number of completed attempts, never
\* more than the stream holds, and when the run has finished every attempt
\* of the stream is in exactly one of the two sets.
C6_AccountedOnce ==
    /\ pc \in {"loop", "report", "done"} =>
           /\ attempts_done
                  = Cardinality(CollidedSet) + Cardinality(CompletedSet)
           /\ CollidedSet \cap CompletedSet = {}
           /\ attempts_done <= Len(attempts)
           /\ NumRecords("DATA") = Cardinality(CompletedSet)
           /\ NumRecords("W") = attempts_done
    /\ pc = "done" =>
           /\ CollidedSet \cup CompletedSet = 1 .. Len(attempts)
           /\ attempts_done = Len(attempts)

\* a finished run with both a collided and a completed attempt
C6_Witness ==
    /\ pc = "done"
    /\ CollidedSet # {}
    /\ CompletedSet # {}

RECURSIVE SumOver(_, _)
SumOver(S, f) ==
    IF S = {} THEN 0
    ELSE LET n == CHOOSE x \in S : TRUE
         IN  f[n] + SumOver(S \ {n}, f)

\* C7: the total bytes delivered of the Run Result is the sum over all nodes
\* of the per-node bytes-delivered.
C7_TotalIsSum ==
    pc = "done" => total_throughput_bytes = SumOver(Nodes, bytes_success)

\* a finished run in which node 0 and another node delivered data
C7_Witness ==
    /\ pc = "done"
    /\ bytes_success[0] > 0
    /\ \E n \in Nodes : n # 0 /\ bytes_success[n] > 0

\* C8: with valid parameters every node's energy, bytes-sent and
\* bytes-delivered totals are non-negative and never decrease, the idle
\* baseline step included.
C8_Step ==
    pc \in {"loop", "report", "done"} =>
        \A n \in Nodes :
            /\ 0 <= energy[n] /\ energy[n] <= energy'[n]
            /\ 0 <= bytes_sent[n] /\ bytes_sent[n] <= bytes_sent'[n]
            /\ 0 <= bytes_success[n] /\ bytes_success[n] <= bytes_success'[n]

\* C8, in every step of every run: totals are non-negative and never decrease
C8_TotalsMonotone == [][C8_Step]_vars

\* the baseline has been added after attempts raised a node's totals
C8_Witness ==
    /\ pc = "report"
    /\ attempts_done >= 2
    /\ \E n \in Nodes :
           /\ energy[n] > (I_idle * Vcc) * sim_time
           /\ bytes_sent[n] > 0

\* C9: with an invalid numeric parameter (N < 2, rate <= 0, horizon <= 0) the
\* run is rejected before it starts: no attempt is processed and no Run
\* Result is returned.
C9_InvalidParametersRejected ==
    (N < 2 \/ lambda_rate <= 0 \/ sim_time <= 0) =>
        /\ idx = 0
        /\ pc # "done"

\* C10: with a configuration identity outside the three recognized ones the
\* run fails: no attempt is processed and no Run Result is returned.
C10_UnknownConfigRejected ==
    (\A k \in 1 .. Len(configs) : config_name # configs[k]) =>
        /\ idx = 0
        /\ pc # "done"

\* duration of the m-th record the step appends to the ledger
NewDur(m) ==
    transmissions'[Len(transmissions) + m].end
        - transmissions'[Len(transmissions) + m].start

\* the step collided and charged its sender a wake-up of current Iw
CollidedAt(Iw) ==
    LET s == attempts[Len(collided_log')].node
    IN  energy'[s] - energy[s]
            = (I_sense * Vcc) * tau_sense + (Iw * Vcc) * NewDur(1)
              + (I_idle * Vcc) * tau_noAck

\* the step completed and charged wake-up, acknowledgment and data at the
\* currents Iw, Ia and Id
CompletedAt(Iw, Ia, Id) ==
    LET s == attempts[Len(collided_log')].node
        g == attempts[Len(collided_log')].target
    IN  /\ energy'[s] - energy[s]
               = (I_sense * Vcc) * tau_sense + (Iw * Vcc) * NewDur(1)
                 + (I_receive * Vcc) * NewDur(2) + (Id * Vcc) * NewDur(3)
        /\ energy'[g] - energy[g]
               = (I_receive * Vcc) * (tau_sense \div 2)
                 + (I_receive * Vcc) * NewDur(1) + (Ia * Vcc) * NewDur(2)
                 + (I_receive * Vcc) * NewDur(3)

TxCurrents == {I_tx_low, I_tx_high}

\* the statement of C11 as claimed: the hybrid wake-up is long and driven at
\* low current, with high current in the acknowledgment or the data phase
C11_ClaimedStep ==
    /\ (Marks(TRUE) \/ Marks(FALSE)) =>
           /\ config_name = "config1" => NewDur(1) > tau_txW
           /\ config_name = "config2" => NewDur(1) = tau_txW
           /\ config_name = "config3" => NewDur(1) > tau_txW
    /\ Marks(TRUE) =>
           /\ config_name = "config1" => CollidedAt(I_tx_low)
           /\ config_name = "config2" => CollidedAt(I_tx_high)
           /\ config_name = "config3" => CollidedAt(I_tx_low)
    /\ Marks(FALSE) =>
           /\ config_name = "config1" =>
                  \E Ia \in TxCurrents, Id \in TxCurrents :
                      CompletedAt(I_tx_low, Ia, Id)
           /\ config_name = "config2" =>
                  \E Ia \in TxCurrents, Id \in TxCurrents :
                      CompletedAt(I_tx_high, Ia, Id)
           /\ config_name = "config3" =>
                  \E Ia \in TxCurrents, Id \in TxCurrents :
                      /\ Ia = I_tx_high \/ Id = I_tx_high
                      /\ CompletedAt(I_tx_low, Ia, Id)

C11_AsClaimed == [][C11_ClaimedStep]_vars

C11_Step ==
    /\ (Marks(TRUE) \/ Marks(FALSE)) =>
           /\ config_name = "config1" => NewDur(1) = 3 * tau_txW
           /\ config_name = "config2" => NewDur(1) = tau_txW
           /\ config_name = "config3" => NewDur(1) = 3 * tau_txW
    /\ Marks(TRUE) =>
           /\ config_name = "config1" => CollidedAt(I_tx_low)
           /\ config_name = "config2" => CollidedAt(I_tx_high)
           /\ config_name = "config3" => CollidedAt(I_tx_high)
    /\ Marks(FALSE) =>
           /\ config_name = "config1" =>
                  CompletedAt(I_tx_low, I_tx_low, I_tx_low)
           /\ config_name = "config2" =>
                  CompletedAt(I_tx_high, I_tx_high, I_tx_high)
           /\ config_name = "config3" =>
                  CompletedAt(I_tx_high, I_tx_low, I_tx_low)

\* C11 (amended): the sequential configuration sends a long (threefold)
\* wake-up at low current, the simultaneous one a short wake-up at high
\* current, and the hybrid one a long wake-up at high current with low
\* current in the acknowledgment and data phases.
C11_WakeUpParameters == [][C11_Step]_vars

\* a hybrid run in which one attempt completed and another collided
C11_Witness ==
    /\ config_name = "config3"
    /\ CollidedSet # {}
    /\ CompletedSet # {}

\* C12: the idle-baseline charge (idle current x supply voltage x horizon) is
\* added to every node exactly once, in the step after the last attempt, and
\* whatever the node did; a run without attempts ends with zero attempts
\* processed, zero bytes and every node's energy equal to the baseline.
C12_Step ==
    /\ (pc = "loop" /\ pc' = "loop") =>
           \A n \in Nodes :
               (n # attempts[idx + 1].node /\ n # attempts[idx + 1].target)
               => energy'[n] = energy[n]
    /\ (pc = "loop" /\ pc' = "report") =>
           /\ idx = Len(attempts)
           /\ \A n \in Nodes :
                  energy'[n] = energy[n] + (I_idle * Vcc) * sim_time
    /\ pc \in {"report", "done"} => energy' = energy
    /\ pc' = "done" => pc = "report"
    /\ (pc' = "done" /\ attempts = <<>>) =>
           /\ attempts_done' = 0
           /\ \A n \in Nodes :
                  /\ bytes_sent'[n] = 0
                  /\ bytes_success'[n] = 0
                  /\ energy'[n] = (I_idle * Vcc) * sim_time

C12_BaselineOnce == [][C12_Step]_vars

\* a finished run without attempts, every node holding the baseline charge
C12_Witness ==
    /\ pc = "done"
    /\ attempts = <<>>
    /\ \A n \in Nodes : energy[n] = (I_idle * Vcc) * sim_time

\* C13: the ledger is append-only: in every step the ledger before the step
\* is an unmodified prefix of the ledger after it, the wake-up record of a
\* collided attempt included.
C13_Step ==
    /\ Len(transmissions') >= Len(transmissions)
    /\ SubSeq(transmissions', 1, Len(transmissions)) = transmissions

C13_LedgerAppendOnly == [][C13_Step]_vars

\* the wake-up record of a collided attempt is still in the ledger after
\* a later attempt appended its own records
C13_Witness ==
    \E k \in 1 .. Len(collided_log) :
        /\ collided_log[k]
        /\ k < Len(collided_log)
        /\ \E p \in 1 .. Len(transmissions) : IsWakeUpOf(p, k)

\* C14: the attempt stream the driver consumes is non-decreasing in time,
\* and every attempt has a time strictly below the horizon, an origin in
\* [0, N) and a destination in [0, N) other than its origin.
C14_StreamOrdered ==
    /\ \A k \in 1 .. Len(attempts) :
           /\ attempts[k].time < sim_time
           /\ attempts[k].node \in Nodes
           /\ attempts[k].target \in Nodes
           /\ attempts[k].target # attempts[k].node
    /\ pc \in {"loop", "report", "done"} =>
           \A k \in 1 .. (Len(attempts) - 1) :
               attempts[k].time <= attempts[k + 1].time

\* a stream of three attempts being consumed in which a higher-numbered
\* node's attempt precedes a lower-numbered node's, and two attempts tie
C14_Witness ==
    /\ pc = "loop"
    /\ Len(attempts) = 3
    /\ \E k \in 1 .. 2 :
           /\ attempts[k].node > attempts[k + 1].node
           /\ attempts[k].time < attempts[k + 1].time
    /\ \E k \in 1 .. 2 : attempts[k].time = attempts[k + 1].time

\* C16: every record in the ledger, of every phase and under every
\* configuration, ends strictly after it starts.
C16_RecordsHaveLength ==
    \A p \in 1 .. Len(transmissions) :
        transmissions[p].end > transmissions[p].start

\* a ledger holding a record of each of the three phases
C16_Witness ==
    \A type \in {"W", "ACK", "DATA"} : NumRecords(type) > 0

\* C17: processing one attempt changes the energy of at most its sender and
\* its target and the byte totals of its sender only.
C17_Step ==
    (Marks(TRUE) \/ Marks(FALSE)) =>
        LET s == attempts[Len(collided_log')].node
            g == attempts[Len(collided_log')].target
        IN  \A n \in Nodes :
                /\ (n # s /\ n # g) => energy'[n] = energy[n]
                /\ n # s => /\ bytes_sent'[n] = bytes_sent[n]
                            /\ bytes_success'[n] = bytes_success[n]

C17_FrameOfAttempt == [][C17_Step]_vars

\* among three nodes one attempt completed: its sender holds bytes, its
\* target holds energy but no bytes, and the third node holds nothing
C17_Witness ==
    /\ N = 3
    /\ collided_log = <<FALSE>>
    /\ bytes_success[attempts[1].node] > 0
    /\ energy[attempts[1].target] > 0
    /\ bytes_sent[attempts[1].target] = 0
    /\ \E n \in Nodes : energy[n] = 0

\* C18: in a completed attempt generated at time t the wake-up starts at
\* t + tau_sense, the acknowledgment starts 0.1 ms (2 ticks) after the
\* wake-up ends and the data 0.05 ms (1 tick) after the acknowledgment ends,
\* so wake-up.start < wake-up.end < ack.start < ack.end < data.start
\* < data.end.
C18_PhasesOrdered ==
    \A k \in 1 .. Len(collided_log) :
        ~collided_log[k] =>
            \E p \in 1 .. (Len(transmissions) - 2) :
                LET w == transmissions[p]
                    a == transmissions[p + 1]
                    d == transmissions[p + 2]
                IN  /\ IsWakeUpOf(p, k)
                    /\ a.type = "ACK"
                    /\ d.type = "DATA"
                    /\ w.start = attempts[k].time + tau_sense
                    /\ a.start = w.end + 2
                    /\ d.start = a.end + 1
                    /\ w.start < w.end
                    /\ w.end < a.start
                    /\ a.start < a.end
                    /\ a.end < d.start
                    /\ d.start < d.end

\* two attempts have completed
C18_Witness ==
    /\ Cardinality(CompletedSet) >= 2
    /\ NumRecords("DATA") >= 2

\* C19: the wake-up records lie in the ledger in non-decreasing order of
\* start time, so an attempt is marked collided exactly when an earlier
\* wake-up record to its target ends strictly after its own wake-up starts;
\* no earlier wake-up record starts at or after the end of its wake-up.
C19_WakeUpsInStartOrder ==
    /\ \A p \in 1 .. Len(transmissions) : \A q \in p .. Len(transmissions) :
           (transmissions[p].type = "W" /\ transmissions[q].type = "W")
           => transmissions[p].start <= transmissions[q].start
    /\ \A k \in 1 .. Len(collided_log) :
           \E p \in 1 .. Len(transmissions) :
               /\ IsWakeUpOf(p, k)
               /\ collided_log[k] <=>
                      \E j \in 1 .. (p - 1) :
                          /\ transmissions[j].type = "W"
                          /\ transmissions[j].target = transmissions[p].target
                          /\ transmissions[j].end > transmissions[p].start
               /\ \A j \in 1 .. (p - 1) :
                      transmissions[j].type = "W"
                      => ~(transmissions[j].start >= transmissions[p].end)

\* a later-starting wake-up collided with an earlier one to its target,
\* and the stream had to be reordered by the sort
C19_Witness ==
    /\ \E k \in 1 .. Len(collided_log) :
           /\ collided_log[k]
           /\ \E j \in 1 .. (k - 1) :
                  /\ attempts[j].target = attempts[k].target
                  /\ attempts[j].time < attempts[k].time
                  /\ attempts[j].node > attempts[k].node

\* attempts i and k of the stream go to one target with intersecting wake-ups
Clash(i, k) ==
    /\ attempts[i].target = attempts[k].target
    /\ Intersects(WakeInterval(attempts, i), WakeInterval(attempts, k))

\* C20: the wake-up of a collided attempt collides later attempts like any
\* other: an attempt whose wake-up intersects an earlier wake-up to its
\* target is marked collided even when that earlier attempt itself collided,
\* so of mutually intersecting attempts to one target the first completes
\* and all the others collide.
C20_CollidedWakeUpsCount ==
    /\ \A k \in 1 .. Len(collided_log) : \A i \in 1 .. (k - 1) :
           (Clash(i, k) /\ collided_log[i]) => collided_log[k]
    /\ \A k \in 1 .. Len(collided_log) :
           LET chain == {i \in 1 .. k :
                             attempts[i].target = attempts[k].target}
           IN  (\A i \in chain : \A j \in chain : i < j => Clash(i, j))
               => \A i \in chain :
                      collided_log[i] <=> (\E j \in chain : j < i)

\* the third attempt collided although its wake-up intersects only the
\* wake-up of the second, which had itself collided with the first
C20_Witness ==
    /\ Len(collided_log) >= 3
    /\ Clash(1, 2)
    /\ Clash(2, 3)
    /\ ~Clash(1, 3)
    /\ collided_log = <<FALSE, TRUE, TRUE>>

====
